---------------------------- MODULE Spec2Model ----------------------------
(***************************************************************************)
(* A model of jobq, a job queue backed by one sqlite table `jobs`.         *)
(*                                                                         *)
(* The store is the table `jobs` (a sequence of rows, the row id being the *)
(* position) and the store clock `now` (unixepoch('now'), whole seconds).  *)
(* Every SQL statement is one atomic step.  A worker loop (startWorker)    *)
(* is a process with a program counter: it issues getNextJob, runs the     *)
(* work function, issues the follow-up enqueues without awaiting them and  *)
(* then issues completeJob or failJob.                                     *)
(***************************************************************************)
EXTENDS Integers, Sequences, FiniteSets, TLC

(* ------------------------------ bounds -------------------------------- *)
\* number of worker loops started by startWorkers
NumWorkers == 2
\* rows the table may hold (inserted plus in flight)
MaxJobs == 2
\* the same in the fan-out scenario: one job of the client and its follow-ups
FanoutRows == 3
\* largest max_attempts a producer passes
MaxAttempts == 2
\* largest time_limit_seconds a producer passes
MaxTimeLimit == 1
\* last second the store clock reaches
MaxTime == 2
\* cap of the consecutive busy errors of one loop
MaxBusy == 1
\* largest number of follow-up jobs a work function returns
MaxFanout == 1
\* the same in the fan-out scenario
FanoutMax == 2
\* cap of the consecutive busy errors of one loop in the backoff scenario
BackoffMax == 3
\* rows the table may hold in the backoff scenario
BackoffRows == 1
\* Math.random() yields one of 0/RandSteps, ..., (RandSteps - 1)/RandSteps
RandSteps == 2

(* ------------------------- program constants -------------------------- *)
PENDING == 1
IN_PROGRESS == 2
COMPLETE == 3
FAILED == 4

BACKOFF_K == 50

\* the value of the column `error` of a row that never failed terminally
NULL == "null"
\* String(workError): the reasons a work function may throw with
Reasons == {"random error"}

Workers == 1..NumWorkers
Attempts == 1..MaxAttempts
TimeLimits == 0..MaxTimeLimit

\* JobParams without the opaque description
JobParams == [max_attempts : Attempts, time_limit_seconds : TimeLimits]

\* `let job: Job | undefined` before getNextJob resolved with a row
NoJob == [id |-> 0, attempts_remaining |-> 0]

VARIABLES
  jobs,         \* the table jobs: row id -> row
  now,          \* the store clock, unixepoch('now')
  inflight,     \* enqueueJob calls issued and not yet settled: the JobParams,
                \* and the id of the job whose work function returned them
                \* (0: issued by the client)
  pc,           \* pc[w]: where worker loop w stands
  job,          \* job[w]: the row getNextJob returned to w (id and version token)
  complete,     \* complete[w]: the work function returned
  workError,    \* workError[w]: what the work function threw, or NULL
  busy_errors,  \* busy_errors[w]: consecutive SQLITE_BUSY results of getNextJob
  time,         \* time[w]: the milliseconds w sleeps for (0 when not asleep)
  lastCall,     \* the last settled store call and what it resolved with
  granted       \* the pairs <<id, attempts_remaining>> getNextJob has returned

vars == <<jobs, now, inflight, pc, job, complete, workError, busy_errors, time,
          lastCall, granted>>

(* ------------------------- the SQL statements ------------------------- *)

\* unixepoch('now', printf('+%d second', n))
unixepoch(t, n) == t + n

\* INSERT INTO jobs(...) VALUES (?, ?, ?, ?, unixepoch('now', ?), PENDING)
enqueueRow(params, t) ==
  [ status |-> PENDING,
    max_attempts |-> params.max_attempts,
    attempts_remaining |-> params.max_attempts,
    time_limit_seconds |-> params.time_limit_seconds,
    deadline |-> unixepoch(t, params.time_limit_seconds),
    error |-> NULL ]

\* isEligible with a lease that ends in the second of its deadline
isEligibleAtDeadline(r, t) ==
  \/ r.status = PENDING /\ r.attempts_remaining > 0
  \/ r.status = IN_PROGRESS /\ r.deadline <= t /\ r.attempts_remaining > 0

\* isEligible that takes a lapsed lease whether or not attempts remain
isEligibleSpent(r, t) ==
  \/ r.status = PENDING /\ r.attempts_remaining > 0
  \/ r.status = IN_PROGRESS /\ r.deadline < t

\* isEligible that never takes a lapsed lease
isEligibleNoReclaim(r, t) ==
  r.status = PENDING /\ r.attempts_remaining > 0

\* isEligible that takes a lease whether or not it has lapsed
isEligibleInProgress(r, t) ==
  \/ r.status = PENDING /\ r.attempts_remaining > 0
  \/ r.status = IN_PROGRESS /\ r.attempts_remaining > 0

\* The WHERE clause of getNextJob's inner SELECT.
isEligible(r, t) ==
  \/ r.status = PENDING /\ r.attempts_remaining > 0
  \/ r.status = IN_PROGRESS /\ r.deadline < t /\ r.attempts_remaining > 0

Eligible(js, t) == { i \in DOMAIN js : isEligible(js[i], t) }

\* nextJobIds with ORDER BY deadline ASC
nextJobIdsEarliest(js, t) ==
  { i \in Eligible(js, t) :
      \A k \in Eligible(js, t) : js[i].deadline <= js[k].deadline }

\* ORDER BY deadline DESC LIMIT 1: the ids the inner SELECT may yield (sqlite
\* leaves the order among equal deadlines open).
nextJobIds(js, t) ==
  { i \in Eligible(js, t) :
      \A k \in Eligible(js, t) : js[k].deadline <= js[i].deadline }

\* claimRow that leaves the deadline as it was
claimRowKeepsDeadline(r, t) ==
  [ r EXCEPT !.status = IN_PROGRESS,
             !.attempts_remaining = r.attempts_remaining - 1 ]

\* claimRow that leaves attempts_remaining as it was
claimRowNoDecrement(r, t) ==
  [ r EXCEPT !.status = IN_PROGRESS,
             !.deadline = unixepoch(t, r.time_limit_seconds) ]

\* The SET clause of getNextJob.
claimRow(r, t) ==
  [ r EXCEPT !.status = IN_PROGRESS,
             !.deadline = unixepoch(t, r.time_limit_seconds),
             !.attempts_remaining = r.attempts_remaining - 1 ]

\* completeJob: the rows the UPDATE matches (WHERE id = ? AND attempts_remaining = ?)
completeMatches(js, j) ==
  { i \in DOMAIN js : i = j.id /\ js[i].attempts_remaining = j.attempts_remaining }

\* completeJob: the table after the UPDATE
completeRows(js, j) ==
  [ i \in DOMAIN js |->
      IF i \in completeMatches(js, j) THEN [ js[i] EXCEPT !.status = COMPLETE ]
      ELSE js[i] ]

\* failJob: the rows the UPDATE of the chosen branch matches
failMatches(js, j) ==
  IF j.attempts_remaining <= 0
  THEN { i \in DOMAIN js : i = j.id /\ js[i].attempts_remaining = j.attempts_remaining }
  ELSE { i \in DOMAIN js : i = j.id }

\* failRows that takes the terminal branch only below 0 attempts
failRowsOffByOne(js, j, reason, t) ==
  [ i \in DOMAIN js |->
      IF i \in failMatches(js, j)
      THEN IF j.attempts_remaining < 0
           THEN [ js[i] EXCEPT !.status = FAILED, !.error = reason ]
           ELSE [ js[i] EXCEPT !.status = PENDING,
                               !.deadline = unixepoch(t, js[i].time_limit_seconds) ]
      ELSE js[i] ]

\* failJob: the table after the UPDATE of the chosen branch
failRows(js, j, reason, t) ==
  [ i \in DOMAIN js |->
      IF i \in failMatches(js, j)
      THEN IF j.attempts_remaining <= 0
           THEN [ js[i] EXCEPT !.status = FAILED, !.error = reason ]
           ELSE [ js[i] EXCEPT !.status = PENDING,
                               !.deadline = unixepoch(t, js[i].time_limit_seconds) ]
      ELSE js[i] ]

\* resolve(this.changes === 1)
changedOne(S) == Cardinality(S) = 1

(* ------------------------------- Init --------------------------------- *)
NoCall == [op |-> "none", w |-> 0, id |-> 0, token |-> 0, ok |-> FALSE]

Init ==
  /\ jobs = << >>
  /\ now = 0
  /\ inflight = << >>
  /\ pc = [w \in Workers |-> "claim"]
  /\ job = [w \in Workers |-> NoJob]
  /\ complete = [w \in Workers |-> FALSE]
  /\ workError = [w \in Workers |-> NULL]
  /\ busy_errors = [w \in Workers |-> 0]
  /\ time = [w \in Workers |-> 0]
  /\ lastCall = NoCall
  /\ granted = {}

workerVars == <<pc, job, complete, workError, busy_errors, time>>

(* ------------------------------ actions ------------------------------- *)

\* The store clock advances by one second.
Tick ==
  /\ now < MaxTime
  /\ now' = now + 1
  /\ UNCHANGED <<jobs, inflight, workerVars, lastCall, granted>>

\* an enqueueJob call in flight
call(params, origin) == [params |-> params, origin |-> origin]

\* createClient(...).enqueueJob(params): issues enqueueJob and does not await it.
ClientEnqueue(params) ==
  /\ inflight' = Append(inflight, call(params, 0))
  /\ UNCHANGED <<jobs, now, workerVars, lastCall, granted>>

RemoveAt(s, k) == [ i \in 1..(Len(s) - 1) |-> IF i < k THEN s[i] ELSE s[i + 1] ]

\* An issued enqueueJob settles with the row inserted (resolve(this.lastID)).
EnqueueSettle(k) ==
  /\ k \in DOMAIN inflight
  /\ jobs' = Append(jobs, enqueueRow(inflight[k].params, now))
  /\ inflight' = RemoveAt(inflight, k)
  /\ lastCall' = [op |-> "enqueue", w |-> 0, id |-> Len(jobs) + 1,
                  token |-> inflight[k].params.max_attempts, ok |-> TRUE]
  /\ UNCHANGED <<now, workerVars, granted>>

\* EnqueueReject in which one failed call takes the others with it
EnqueueRejectAll(k) ==
  /\ k \in DOMAIN inflight
  /\ inflight' = << >>
  /\ lastCall' = [op |-> "enqueue", w |-> 0, id |-> 0,
                  token |-> inflight[k].params.max_attempts, ok |-> FALSE]
  /\ UNCHANGED <<jobs, now, workerVars, granted>>

\* An issued enqueueJob settles with a store error (reject(err)); the caller
\* logs it, or drops it.
EnqueueReject(k) ==
  /\ k \in DOMAIN inflight
  /\ inflight' = RemoveAt(inflight, k)
  /\ lastCall' = [op |-> "enqueue", w |-> 0, id |-> 0,
                  token |-> inflight[k].params.max_attempts, ok |-> FALSE]
  /\ UNCHANGED <<jobs, now, workerVars, granted>>

\* GetNextJobRow that returns the row as it was before the UPDATE
GetNextJobRowPrior(w, i) ==
  /\ pc[w] = "claim"
  /\ i \in nextJobIds(jobs, now)
  /\ jobs' = [jobs EXCEPT ![i] = claimRow(jobs[i], now)]
  /\ job' = [job EXCEPT ![w] = [id |-> i,
                                attempts_remaining |-> jobs[i].attempts_remaining]]
  /\ busy_errors' = [busy_errors EXCEPT ![w] = 0]
  /\ pc' = [pc EXCEPT ![w] = "work"]
  /\ lastCall' = [op |-> "claim", w |-> w, id |-> i,
                  token |-> jobs[i].attempts_remaining, ok |-> TRUE]
  /\ granted' = granted \cup {<<i, jobs[i].attempts_remaining>>}
  /\ UNCHANGED <<now, inflight, complete, workError, time>>

\* getNextJob resolves with a row: the UPDATE ... RETURNING * found one.
GetNextJobRow(w, i) ==
  /\ pc[w] = "claim"
  /\ i \in nextJobIds(jobs, now)
  /\ jobs' = [jobs EXCEPT ![i] = claimRow(jobs[i], now)]
  /\ job' = [job EXCEPT ![w] = [id |-> i,
                                attempts_remaining |-> jobs'[i].attempts_remaining]]
  /\ busy_errors' = [busy_errors EXCEPT ![w] = 0]
  /\ pc' = [pc EXCEPT ![w] = "work"]
  /\ lastCall' = [op |-> "claim", w |-> w, id |-> i,
                  token |-> jobs'[i].attempts_remaining, ok |-> TRUE]
  /\ granted' = granted \cup {<<i, jobs'[i].attempts_remaining>>}
  /\ UNCHANGED <<now, inflight, complete, workError, time>>

\* getNextJob resolves with undefined: no row is eligible; the loop continues.
GetNextJobNone(w) ==
  /\ pc[w] = "claim"
  /\ nextJobIds(jobs, now) = {}
  /\ busy_errors' = [busy_errors EXCEPT ![w] = 0]
  /\ lastCall' = [op |-> "claim", w |-> w, id |-> 0, token |-> 0, ok |-> TRUE]
  /\ UNCHANGED <<jobs, now, inflight, pc, job, complete, workError, time, granted>>

\* 1000 * BACKOFF_K * Math.pow(Math.E, n), rounded down: the range in
\* thousandths of a millisecond
rangeMilli(n) ==
  CASE n = 0 -> 1000 * BACKOFF_K
    [] n = 1 -> 135914
    [] n = 2 -> 369452
    [] n = 3 -> 1004276
    [] n = 4 -> 2729907
    [] n = 5 -> 7420657
    [] OTHER -> 20171439

\* Math.floor(Math.random() * range), with Math.random() = r / RandSteps
sleepTime(r, n) == (r * rangeMilli(n)) \div (RandSteps * 1000)

\* the values of Math.random()
Randoms == 0..(RandSteps - 1)

\* getNextJob rejects with SQLITE_BUSY (errno 5): count it and sleep.
GetNextJobBusy(w, r) ==
  /\ pc[w] = "claim"
  /\ busy_errors' = [busy_errors EXCEPT ![w] = busy_errors[w] + 1]
  /\ time' = [time EXCEPT ![w] = sleepTime(r, busy_errors'[w])]
  /\ pc' = [pc EXCEPT ![w] = "sleep"]
  /\ lastCall' = [op |-> "claim", w |-> w, id |-> 0, token |-> 0, ok |-> FALSE]
  /\ UNCHANGED <<jobs, now, inflight, job, complete, workError, granted>>

\* GetNextJobError that leaves busy_errors as it was
GetNextJobErrorKeepsCount(w) ==
  /\ pc[w] = "claim"
  /\ lastCall' = [op |-> "claimerror", w |-> w, id |-> 0, token |-> 0, ok |-> FALSE]
  /\ UNCHANGED <<jobs, now, inflight, pc, job, complete, workError, busy_errors, time,
                 granted>>

\* getNextJob rejects with another error: busy_errors = 0, job is undefined,
\* the loop continues.
GetNextJobError(w) ==
  /\ pc[w] = "claim"
  /\ busy_errors' = [busy_errors EXCEPT ![w] = 0]
  /\ lastCall' = [op |-> "claimerror", w |-> w, id |-> 0, token |-> 0, ok |-> FALSE]
  /\ UNCHANGED <<jobs, now, inflight, pc, job, complete, workError, time, granted>>

\* sleep(time) is over; job is undefined, the loop continues.
Wake(w) ==
  /\ pc[w] = "sleep"
  /\ pc' = [pc EXCEPT ![w] = "claim"]
  /\ time' = [time EXCEPT ![w] = 0]
  /\ UNCHANGED <<jobs, now, inflight, job, complete, workError, busy_errors, lastCall,
                 granted>>

\* The work function returns newJobs; each is handed to enqueueJob, not
\* awaited, and completeJob is issued.
WorkReturn(w, newJobs) ==
  /\ pc[w] = "work"
  /\ complete' = [complete EXCEPT ![w] = TRUE]
  /\ inflight' = inflight \o [n \in DOMAIN newJobs |-> call(newJobs[n], job[w].id)]
  /\ pc' = [pc EXCEPT ![w] = "finalize"]
  /\ UNCHANGED <<jobs, now, job, workError, busy_errors, time, lastCall, granted>>

\* The work function throws; failJob is issued with String(workError).
WorkThrow(w, e) ==
  /\ pc[w] = "work"
  /\ workError' = [workError EXCEPT ![w] = e]
  /\ pc' = [pc EXCEPT ![w] = "finalize"]
  /\ UNCHANGED <<jobs, now, inflight, job, complete, busy_errors, time, lastCall,
                 granted>>

\* The next iteration of for (;;): job, complete, workError are declared anew.
nextIteration(w) ==
  /\ pc' = [pc EXCEPT ![w] = "claim"]
  /\ job' = [job EXCEPT ![w] = NoJob]
  /\ complete' = [complete EXCEPT ![w] = FALSE]
  /\ workError' = [workError EXCEPT ![w] = NULL]

\* completeJob settles.
CompleteJob(w) ==
  /\ pc[w] = "finalize"
  /\ complete[w]
  /\ jobs' = completeRows(jobs, job[w])
  /\ lastCall' = [op |-> "complete", w |-> w, id |-> job[w].id,
                  token |-> job[w].attempts_remaining,
                  ok |-> changedOne(completeMatches(jobs, job[w]))]
  /\ nextIteration(w)
  /\ UNCHANGED <<now, inflight, busy_errors, time, granted>>

\* failJob settles.
FailJob(w) ==
  /\ pc[w] = "finalize"
  /\ ~complete[w]
  /\ jobs' = failRows(jobs, job[w], workError[w], now)
  /\ lastCall' = [op |-> "fail", w |-> w, id |-> job[w].id,
                  token |-> job[w].attempts_remaining,
                  ok |-> changedOne(failMatches(jobs, job[w]))]
  /\ nextIteration(w)
  /\ UNCHANGED <<now, inflight, busy_errors, time, granted>>

\* FinalizeError that ends the loop
FinalizeErrorStops(w) ==
  /\ pc[w] = "finalize"
  /\ lastCall' = [op |-> "finalizeerror", w |-> w, id |-> job[w].id,
                  token |-> job[w].attempts_remaining, ok |-> FALSE]
  /\ pc' = [pc EXCEPT ![w] = "done"]
  /\ UNCHANGED <<jobs, now, inflight, job, complete, workError, busy_errors, time,
                 granted>>

\* completeJob or failJob rejects with a store error: it is logged ('Failed to
\* finalise job') and the loop goes on.
FinalizeError(w) ==
  /\ pc[w] = "finalize"
  /\ lastCall' = [op |-> "finalizeerror", w |-> w, id |-> job[w].id,
                  token |-> job[w].attempts_remaining, ok |-> FALSE]
  /\ nextIteration(w)
  /\ UNCHANGED <<jobs, now, inflight, busy_errors, time, granted>>

\* the lists of at most n follow-up jobs a work function returns
NewJobLists(n) == UNION { [1..k -> JobParams] : k \in 0..n }

\* the table, with the calls in flight, has room for n more rows under cap
Room(n, cap) == Len(jobs) + Len(inflight) + n <= cap

Next ==
  \/ Tick
  \/ \E params \in JobParams : Room(1, MaxJobs) /\ ClientEnqueue(params)
  \/ \E k \in 1..MaxJobs : EnqueueSettle(k)
  \/ \E k \in 1..MaxJobs : EnqueueReject(k)
  \/ \E w \in Workers : \E i \in 1..MaxJobs : GetNextJobRow(w, i)
  \/ \E w \in Workers : GetNextJobNone(w)
  \/ \E w \in Workers : \E r \in Randoms :
       busy_errors[w] < MaxBusy /\ GetNextJobBusy(w, r)
  \/ \E w \in Workers : GetNextJobError(w)
  \/ \E w \in Workers : Wake(w)
  \/ \E w \in Workers : \E newJobs \in NewJobLists(MaxFanout) :
       Room(Len(newJobs), MaxJobs) /\ WorkReturn(w, newJobs)
  \/ \E w \in Workers : \E e \in Reasons : WorkThrow(w, e)
  \/ \E w \in Workers : CompleteJob(w)
  \/ \E w \in Workers : FailJob(w)
  \/ \E w \in Workers : FinalizeError(w)

\* Every behaviour of the program, within the bounds.
Spec == Init /\ [][Next]_vars

\* one step of worker loop w when the store reports no error
WorkerStep(w) ==
  \/ \E i \in 1..MaxJobs : GetNextJobRow(w, i)
  \/ GetNextJobNone(w)
  \/ \E newJobs \in NewJobLists(MaxFanout) :
       Room(Len(newJobs), MaxJobs) /\ WorkReturn(w, newJobs)
  \/ \E e \in Reasons : WorkThrow(w, e)
  \/ CompleteJob(w)
  \/ FailJob(w)

LiveNext ==
  \/ Tick
  \/ \E params \in JobParams : Room(1, MaxJobs) /\ ClientEnqueue(params)
  \/ \E k \in 1..MaxJobs : EnqueueSettle(k)
  \/ \E w \in Workers : WorkerStep(w)

\* The behaviours in which the store reports no error, the store clock
\* advances, every issued enqueueJob settles, every worker loop keeps running
\* and every work function returns or throws.
LiveSpec ==
  /\ Init
  /\ [][LiveNext]_vars
  /\ WF_vars(Tick)
  /\ WF_vars(\E k \in 1..MaxJobs : EnqueueSettle(k))
  /\ \A w \in Workers : WF_vars(WorkerStep(w))

FanoutNext ==
  \/ \E params \in JobParams :
       jobs = << >> /\ inflight = << >> /\ ClientEnqueue(params)
  \/ \E k \in 1..FanoutRows : EnqueueSettle(k)
  \/ \E k \in 1..FanoutRows : EnqueueReject(k)
  \/ \E w \in Workers : \E i \in 1..FanoutRows : GetNextJobRow(w, i)
  \/ \E w \in Workers : GetNextJobNone(w)
  \/ \E w \in Workers : \E newJobs \in NewJobLists(FanoutMax) :
       Room(Len(newJobs), FanoutRows) /\ WorkReturn(w, newJobs)
  \/ \E w \in Workers : \E e \in Reasons : WorkThrow(w, e)
  \/ \E w \in Workers : CompleteJob(w)
  \/ \E w \in Workers : FailJob(w)
  \/ \E w \in Workers : FinalizeError(w)

\* The fan-out scenario: the client enqueues one job, the work functions
\* return up to FanoutMax follow-up jobs, the store clock stands still and
\* getNextJob reports no error.
FanoutSpec == Init /\ [][FanoutNext]_vars

BackoffNext ==
  \/ \E params \in JobParams : Room(1, BackoffRows) /\ ClientEnqueue(params)
  \/ \E k \in 1..BackoffRows : EnqueueSettle(k)
  \/ \E w \in Workers : \E i \in 1..BackoffRows : GetNextJobRow(w, i)
  \/ \E w \in Workers : GetNextJobNone(w)
  \/ \E w \in Workers : \E r \in Randoms :
       busy_errors[w] < BackoffMax /\ GetNextJobBusy(w, r)
  \/ \E w \in Workers : GetNextJobError(w)
  \/ \E w \in Workers : Wake(w)
  \/ \E w \in Workers : WorkReturn(w, << >>)
  \/ \E w \in Workers : \E e \in Reasons : WorkThrow(w, e)
  \/ \E w \in Workers : CompleteJob(w)
  \/ \E w \in Workers : FailJob(w)

\* The backoff scenario: getNextJob reports up to BackoffMax busy errors in a
\* row to each loop, the table holds up to BackoffRows jobs, the work
\* functions return no follow-up jobs and the store clock stands still.
BackoffSpec == Init /\ [][BackoffNext]_vars

(* ----------------------- notions the claims use ----------------------- *)

Terminal(r) == r.status \in {COMPLETE, FAILED}

\* w is between getNextJob and the settling of its finalize call
HoldsJob(w) == pc[w] \in {"work", "finalize"}

\* the store clock has not passed the deadline of a job whose claiming worker
\* is still between getNextJob and its finalize call
NoHeldLeaseLapsed ==
  \A w \in Workers : HoldsJob(w) => ~(jobs[job[w].id].deadline < now)

\* Next with a store clock that does not pass the deadline of a held job: no
\* other step sets a deadline below now.
NoLapseNext ==
  \/ Tick /\ NoHeldLeaseLapsed'
  \/ \E params \in JobParams : Room(1, MaxJobs) /\ ClientEnqueue(params)
  \/ \E k \in 1..MaxJobs : EnqueueSettle(k)
  \/ \E k \in 1..MaxJobs : EnqueueReject(k)
  \/ \E w \in Workers : \E i \in 1..MaxJobs : GetNextJobRow(w, i)
  \/ \E w \in Workers : GetNextJobNone(w)
  \/ \E w \in Workers : \E r \in Randoms :
       busy_errors[w] < MaxBusy /\ GetNextJobBusy(w, r)
  \/ \E w \in Workers : GetNextJobError(w)
  \/ \E w \in Workers : Wake(w)
  \/ \E w \in Workers : \E newJobs \in NewJobLists(MaxFanout) :
       Room(Len(newJobs), MaxJobs) /\ WorkReturn(w, newJobs)
  \/ \E w \in Workers : \E e \in Reasons : WorkThrow(w, e)
  \/ \E w \in Workers : CompleteJob(w)
  \/ \E w \in Workers : FailJob(w)
  \/ \E w \in Workers : FinalizeError(w)

\* The behaviours of the program in which no lease lapses while it is held.
NoLapseSpec == Init /\ [][NoLapseNext]_vars

\* w's version token no longer matches the row: the job was claimed again
Stale(w) == jobs[job[w].id].attempts_remaining # job[w].attempts_remaining

\* this step is the settling of w's completeJob or failJob
Finalizes(w) == CompleteJob(w) \/ FailJob(w)

\* this step is a getNextJob of w that resolves (with a row or with undefined)
Claims(w) == GetNextJobNone(w) \/ \E i \in DOMAIN jobs : GetNextJobRow(w, i)

(* ------------------------------- C1 ----------------------------------- *)
\* C1: a completeJob or failJob whose version token differs from the row's
\* attempts_remaining resolves false and leaves the table as it was, in both
\* branches of failJob.  (Violated: failJob with a token > 0 matches by id alone.)
C1_StaleFinalizeIsRejected ==
  [][ \A w \in Workers :
        (pc[w] = "finalize" /\ Stale(w) /\ Finalizes(w))
          => (lastCall'.ok = FALSE /\ jobs' = jobs) ]_vars

(* ------------------------------- C2 ----------------------------------- *)
\* C2: once a row is COMPLETE or FAILED no step changes any of its fields.
\* (Violated: a failJob with an older token > 0 sets it back to PENDING.)
C2_TerminalRowsAreImmutable ==
  [][ \A j \in DOMAIN jobs : Terminal(jobs[j]) => jobs'[j] = jobs[j] ]_vars

(* ------------------------------- C3 ----------------------------------- *)
\* C3: when two workers hold a lease on the same job and their finalize calls
\* settle one after the other, the second one does not resolve true after the
\* first one did.  (Violated: failJob with the older token and completeJob
\* with the newer one both change one row.)
C3_OnlyOneFinalizeWins ==
  [][ \A w \in Workers :
        ( /\ lastCall.op \in {"complete", "fail"}
          /\ lastCall.ok
          /\ lastCall.w # w
          /\ pc[w] = "finalize"
          /\ lastCall.id = job[w].id
          /\ Finalizes(w) )
          => lastCall'.ok = FALSE ]_vars

(* ------------------------------- C4 ----------------------------------- *)
\* C4: a getNextJob that finds exactly one eligible row returns that row and
\* leaves no row eligible at the same store time, and a getNextJob that finds
\* no eligible row returns no job and changes no row: of two calls issued
\* together on one eligible job exactly one gets it.
C4_OneEligibleJobOneClaim ==
  [][ \A w \in Workers :
        /\ \A i \in DOMAIN jobs :
             (GetNextJobRow(w, i) /\ Eligible(jobs, now) = {i})
               => /\ lastCall'.id = i
                  /\ job'[w].id = i
                  /\ Eligible(jobs', now') = {}
        /\ (Claims(w) /\ Eligible(jobs, now) = {})
             => /\ lastCall'.id = 0
                /\ job'[w] = NoJob
                /\ jobs' = jobs ]_vars

\* C4 witness: w1 was handed the only job at the current store time, and the
\* getNextJob of w2 that followed resolved with no job.
C4_Witness ==
  \E w1, w2 \in Workers :
    /\ w1 # w2
    /\ Len(jobs) = 1
    /\ pc[w1] = "work" /\ job[w1].id = 1
    /\ jobs[1].attempts_remaining = job[w1].attempts_remaining
    /\ jobs[1].attempts_remaining > 0
    /\ jobs[1].deadline = unixepoch(now, jobs[1].time_limit_seconds)
    /\ lastCall = [op |-> "claim", w |-> w2, id |-> 0, token |-> 0, ok |-> TRUE]

(* ------------------------------- C5 ----------------------------------- *)
\* C5: every row has 0 <= attempts_remaining <= max_attempts; a getNextJob
\* that returns the row lowers attempts_remaining by exactly 1 and no other
\* step changes it or max_attempts, so the leases granted for a row, which is
\* max_attempts - attempts_remaining, never exceed max_attempts.
C5_AttemptsAccounting ==
  /\ [](\A j \in DOMAIN jobs :
          /\ jobs[j].max_attempts >= 1
          /\ 0 <= jobs[j].attempts_remaining
          /\ jobs[j].attempts_remaining <= jobs[j].max_attempts)
  /\ [][ \A j \in DOMAIN jobs :
           /\ jobs'[j].max_attempts = jobs[j].max_attempts
           /\ IF \E w \in Workers : GetNextJobRow(w, j)
              THEN jobs'[j].attempts_remaining = jobs[j].attempts_remaining - 1
              ELSE jobs'[j].attempts_remaining = jobs[j].attempts_remaining ]_vars

\* C5 witness: a row that was granted max_attempts >= 2 leases and has none left.
C5_Witness ==
  \E j \in DOMAIN jobs :
    /\ jobs[j].max_attempts >= 2
    /\ jobs[j].attempts_remaining = 0
    /\ lastCall.op = "claim" /\ lastCall.id = j /\ lastCall.token = 0

(* ------------------------------- C6 ----------------------------------- *)
\* C6: under LiveSpec every enqueued job ends in a terminal state and stays
\* there: no job is left PENDING or IN_PROGRESS for ever.  (Violated: a failJob
\* with an older token > 0 sets a finished job, whose attempts are used up,
\* back to PENDING, where no getNextJob takes it again.)
C6_EveryJobEndsTerminal ==
  \A j \in 1..MaxJobs : <>[](j \in DOMAIN jobs => Terminal(jobs[j]))

(* ------------------------------- C7 ----------------------------------- *)
\* the lease of row j has lapsed and attempts remain
Lapsed(j) ==
  /\ j \in DOMAIN jobs
  /\ jobs[j].status = IN_PROGRESS
  /\ jobs[j].deadline < now
  /\ jobs[j].attempts_remaining > 0

C8_FailUntilExhausted ==
  [][ \A w \in Workers :
        (pc[w] = "finalize" /\ ~Stale(w) /\ FailJob(w))
          => LET j == job[w].id
                 t == job[w].attempts_remaining
             IN /\ lastCall'.op = "fail" /\ lastCall'.ok
                /\ jobs'[j].attempts_remaining = t
                /\ jobs'[j].max_attempts = jobs[j].max_attempts
                /\ IF t > 0
                   THEN jobs'[j].status = PENDING /\ jobs'[j].error = NULL
                   ELSE /\ jobs'[j].status = FAILED
                        /\ jobs'[j].error = workError[w]
                        /\ jobs'[j].error \in Reasons ]_vars

\* C8 witness: a job enqueued with max_attempts >= 2 whose last lease has just
\* been failed: it is FAILED with the reason and no attempts left.
C8_Witness ==
  \E j \in DOMAIN jobs :
    /\ jobs[j].max_attempts >= 2
    /\ jobs[j].status = FAILED
    /\ jobs[j].error \in Reasons
    /\ jobs[j].attempts_remaining = 0
    /\ lastCall.op = "fail" /\ lastCall.id = j /\ lastCall.token = 0 /\ lastCall.ok

(* ------------------------------- C9 ----------------------------------- *)
\* row j, enqueued with time_limit_seconds = 0, is leased and has attempts left
ZeroLimitLease(j) ==
  /\ jobs[j].time_limit_seconds = 0
  /\ jobs[j].status = IN_PROGRESS
  /\ jobs[j].attempts_remaining > 0

\* C9 as claimed: a row leased with time_limit_seconds = 0 that has attempts
\* left is returned again by the next getNextJob that resolves, whether or not
\* the store clock has advanced since the lease was granted.  (Violated: the
\* lease ends at deadline = now and eligibility asks for deadline < now.)
C9_ZeroLimitReclaimedAtOnce ==
  [][ \A w \in Workers : \A j \in DOMAIN jobs :
        (ZeroLimitLease(j) /\ Eligible(jobs, now) \subseteq {j} /\ Claims(w))
          => /\ job'[w].id = j
             /\ jobs'[j].attempts_remaining = jobs[j].attempts_remaining - 1 ]_vars

\* C9 as amended: such a row is returned again, and attempts_remaining lowered
\* again, by the next getNextJob that resolves once the store clock has passed
\* the second in which the lease was granted; a getNextJob in that same second
\* does not return it, and right after a lease is granted on such a row the
\* row is not eligible.
C9_ZeroLimitReclaimedAfterTick ==
  [][ \A w \in Workers : \A j \in DOMAIN jobs :
        /\ (ZeroLimitLease(j) /\ Eligible(jobs, now) \subseteq {j} /\ Claims(w))
             => IF jobs[j].deadline < now
                THEN /\ job'[w].id = j
                     /\ jobs'[j].attempts_remaining = jobs[j].attempts_remaining - 1
                ELSE job'[w] = NoJob /\ jobs' = jobs
        /\ (GetNextJobRow(w, j) /\ jobs[j].time_limit_seconds = 0)
             => j \notin Eligible(jobs', now') ]_vars

\* C9 witness: a job with time_limit_seconds = 0 leased to two workers at
\* once, the second lease granted while the first holder has not finalized.
C9_Witness ==
  \E w1, w2 \in Workers :
    /\ w1 # w2
    /\ HoldsJob(w1) /\ HoldsJob(w2)
    /\ job[w1].id = job[w2].id
    /\ job[w1].attempts_remaining = job[w2].attempts_remaining + 1
    /\ jobs[job[w1].id].time_limit_seconds = 0
    /\ jobs[job[w1].id].attempts_remaining = job[w2].attempts_remaining
    /\ lastCall = [op |-> "claim", w |-> w2, id |-> job[w2].id,
                   token |-> job[w2].attempts_remaining, ok |-> TRUE]

(* ------------------------------- C10 ---------------------------------- *)
\* the enqueueJob calls in flight that the work function of job j returned
FollowUpsInFlight(j) == { k \in DOMAIN inflight : inflight[k].origin = j }

\* C10 as claimed: when the finalize call of a job settles, the follow-up jobs
\* its work function returned are in the table: none of their enqueueJob calls
\* is still in flight.  (Violated: the calls are issued before the finalize
\* call and not awaited, and may settle after it.)
C10_FollowUpsInsertedAtFinalize ==
  [][ \A w \in Workers :
        (pc[w] = "finalize" /\ pc'[w] = "claim")
          => FollowUpsInFlight(job[w].id) = {} ]_vars

\* a row as enqueueJob inserts it for params
FreshRow(r, params) ==
  /\ r.status = PENDING
  /\ r.max_attempts = params.max_attempts
  /\ r.attempts_remaining = params.max_attempts
  /\ r.time_limit_seconds = params.time_limit_seconds
  /\ r.error = NULL

\* C10 as amended: a work function that returns k follow-up jobs puts k
\* enqueueJob calls in flight and changes no row; every call in flight settles
\* on its own, before or after the finalize call: a step that settles one
\* takes that one call out, leaves the others in flight, leaves every worker
\* loop as it is and either appends one row, PENDING with attempts_remaining =
\* its own max_attempts, or (the call failed) changes no row; and the finalize
\* call leaves the calls in flight alone and is completeJob exactly if the
\* work function returned.  So k calls that settle without failure add k rows.
C10_FollowUpsSettleIndependently ==
  [][ /\ \A w \in Workers :
           (pc[w] = "work" /\ pc'[w] = "finalize" /\ complete'[w])
             => /\ jobs' = jobs
                /\ \E newJobs \in NewJobLists(FanoutMax) :
                     inflight' = inflight \o
                       [n \in DOMAIN newJobs |-> call(newJobs[n], job[w].id)]
      /\ (Len(inflight') < Len(inflight))
           => \E k \in DOMAIN inflight :
                /\ inflight' = RemoveAt(inflight, k)
                /\ UNCHANGED workerVars
                /\ \/ jobs' = jobs
                   \/ /\ Len(jobs') = Len(jobs) + 1
                      /\ SubSeq(jobs', 1, Len(jobs)) = jobs
                      /\ FreshRow(jobs'[Len(jobs')], inflight[k].params)
      /\ \A w \in Workers :
           (pc[w] = "finalize" /\ pc'[w] = "claim")
             => /\ inflight' = inflight
                /\ Len(jobs') = Len(jobs)
                /\ jobs' # jobs =>
                     jobs'[job[w].id].status =
                       IF complete[w] THEN COMPLETE
                       ELSE IF job[w].attempts_remaining <= 0 THEN FAILED
                       ELSE PENDING ]_vars

\* C10 witness: the job of the client is finalized and the two follow-up jobs
\* its work function returned are in the table, as inserted.
C10_Witness ==
  /\ Len(jobs) = 3
  /\ inflight = << >>
  /\ jobs[1].status = COMPLETE
  /\ \A j \in {2, 3} :
       jobs[j].status = PENDING /\ jobs[j].attempts_remaining = jobs[j].max_attempts

(* ------------------------------- C11 ---------------------------------- *)
\* C11: after a getNextJob of worker loop w has failed with a store error that
\* is not a busy error, w is terminated: the next store call is not a
\* getNextJob of w.  (Violated: the loop drops the error, sets busy_errors to
\* 0 and continues with the next getNextJob.)
C11_OtherErrorEndsTheLoop ==
  [][ \A w \in Workers :
        (lastCall.op = "claimerror" /\ lastCall.w = w)
          => ~( \/ Claims(w)
                \/ \E r \in Randoms : GetNextJobBusy(w, r)
                \/ GetNextJobError(w) ) ]_vars

(* ------------------------------- C12 ---------------------------------- *)
\* C12: a worker loop that was handed a row keeps that row (id and token)
\* until its one finalize call settles; the call is completeJob if the work
\* function returned and failJob with the thrown reason if it threw, it is
\* made with that row, and whether it resolves true, resolves false or
\* rejects, the loop is at its next getNextJob afterwards.
C12_OneFinalizePerClaim ==
  /\ [](\A w \in Workers :
          /\ pc[w] \in {"claim", "sleep", "work", "finalize"}
          /\ HoldsJob(w) <=> job[w] # NoJob
          /\ pc[w] = "finalize" => (complete[w] <=> workError[w] = NULL))
  /\ [][ \A w \in Workers :
           /\ (pc[w] = "work" /\ pc'[w] # "work")
                => /\ pc'[w] = "finalize"
                   /\ job'[w] = job[w]
                   /\ jobs' = jobs /\ lastCall' = lastCall
                   /\ complete'[w] \/ workError'[w] \in Reasons
           /\ (pc[w] = "finalize")
                => \/ pc'[w] = "finalize" /\ job'[w] = job[w]
                        /\ complete'[w] = complete[w] /\ workError'[w] = workError[w]
                   \/ /\ pc'[w] = "claim"
                      /\ lastCall'.w = w
                      /\ lastCall'.id = job[w].id
                      /\ lastCall'.token = job[w].attempts_remaining
                      /\ lastCall'.op \in {IF complete[w] THEN "complete" ELSE "fail",
                                           "finalizeerror"}
                      /\ lastCall'.op = "complete" =>
                           jobs' = completeRows(jobs, job[w])
                      /\ lastCall'.op = "fail" =>
                           jobs' = failRows(jobs, job[w], workError[w], now)
                      /\ lastCall'.op = "finalizeerror" => jobs' = jobs ]_vars

\* C12 witness: a completeJob that lost the lease resolved false and its loop
\* is at its next getNextJob.
C12_Witness ==
  /\ lastCall.op = "complete"
  /\ ~lastCall.ok
  /\ pc[lastCall.w] = "claim"

(* ------------------------------- C13 ---------------------------------- *)
\* C13: a getNextJob that returns row i found it PENDING with attempts left,
\* or IN_PROGRESS with deadline < now and attempts left; in that one step row
\* i becomes IN_PROGRESS with deadline = now + time_limit_seconds and
\* attempts_remaining one lower, the caller holds the row with the new
\* attempts_remaining, and every other row and the table's length are
\* unchanged.  A getNextJob that finds no such row returns no job and changes
\* no row.
C13_ClaimContract ==
  [][ \A w \in Workers :
        /\ \A i \in DOMAIN jobs :
             GetNextJobRow(w, i)
               => /\ jobs[i].attempts_remaining > 0
                  /\ \/ jobs[i].status = PENDING
                     \/ jobs[i].status = IN_PROGRESS /\ jobs[i].deadline < now
                  /\ jobs'[i] = [ jobs[i] EXCEPT
                       !.status = IN_PROGRESS,
                       !.deadline = now + jobs[i].time_limit_seconds,
                       !.attempts_remaining = jobs[i].attempts_remaining - 1 ]
                  /\ job'[w] = [id |-> i,
                                attempts_remaining |-> jobs[i].attempts_remaining - 1]
                  /\ DOMAIN jobs' = DOMAIN jobs
                  /\ \A k \in DOMAIN jobs : k # i => jobs'[k] = jobs[k]
        /\ (Claims(w) /\ ~\E i \in DOMAIN jobs :
                            /\ jobs[i].attempts_remaining > 0
                            /\ \/ jobs[i].status = PENDING
                               \/ jobs[i].status = IN_PROGRESS /\ jobs[i].deadline < now)
             => jobs' = jobs /\ job'[w] = NoJob /\ pc'[w] = "claim" ]_vars

\* C13 witness: a row handed out as a second lease, after the first had lapsed.
C13_Witness ==
  \E j \in DOMAIN jobs :
    /\ lastCall.op = "claim" /\ lastCall.id = j /\ lastCall.ok
    /\ jobs[j].status = IN_PROGRESS
    /\ jobs[j].attempts_remaining = jobs[j].max_attempts - 2
    /\ jobs[j].deadline = now + jobs[j].time_limit_seconds
    /\ job[lastCall.w] = [id |-> j, attempts_remaining |-> jobs[j].attempts_remaining]

C15_StatusTransitions ==
  [][ \A j \in DOMAIN jobs :
        /\ jobs'[j].status # jobs[j].status
             => \/ /\ jobs[j].status = PENDING /\ jobs'[j].status = IN_PROGRESS
                   /\ \E w \in Workers : GetNextJobRow(w, j)
                \/ /\ jobs[j].status = IN_PROGRESS /\ jobs'[j].status = COMPLETE
                   /\ \E w \in Workers : CompleteJob(w) /\ job[w].id = j
                \/ /\ jobs[j].status = IN_PROGRESS /\ jobs'[j].status = PENDING
                   /\ \E w \in Workers :
                        FailJob(w) /\ job[w].id = j /\ job[w].attempts_remaining > 0
                \/ /\ jobs[j].status = IN_PROGRESS /\ jobs'[j].status = FAILED
                   /\ \E w \in Workers :
                        FailJob(w) /\ job[w].id = j /\ job[w].attempts_remaining <= 0
        /\ (jobs[j].status = IN_PROGRESS /\ jobs'[j].status = IN_PROGRESS
              /\ jobs'[j] # jobs[j])
             => \E w \in Workers : GetNextJobRow(w, j) /\ jobs[j].deadline < now ]_vars

(* ------------------------------- C16 ---------------------------------- *)
\* C16: a row carries an error only while it is FAILED.  (Violated: a failJob
\* with an older token > 0 takes a FAILED row to PENDING and leaves its error.)
C16_ErrorOnlyWhenFailed ==
  \A j \in DOMAIN jobs : jobs[j].error # NULL => jobs[j].status = FAILED

(* ------------------------------- C20 ---------------------------------- *)
\* C20: every PENDING row has attempts_remaining > 0 (all jobs are enqueued
\* with max_attempts >= 1).  (Violated: a failJob with an older token > 0
\* takes a row whose attempts_remaining is 0 back to PENDING.)
C20_PendingHasAttemptsLeft ==
  \A j \in DOMAIN jobs :
    jobs[j].status = PENDING => jobs[j].attempts_remaining > 0

(* ------------------------------- C17 ---------------------------------- *)
\* C17: a busy error of w's getNextJob adds one to w's busy_errors and puts w
\* to sleep for less than BACKOFF_K * e^busy_errors milliseconds; every other
\* outcome of w's getNextJob (a row, no row, another error) sets w's
\* busy_errors to 0 and does not put w to sleep; no other step, and no step of
\* another loop, changes w's busy_errors or puts w to sleep.
C17_BackoffCounter ==
  [][ \A w \in Workers :
        /\ (\E r \in Randoms : GetNextJobBusy(w, r))
             => /\ busy_errors'[w] = busy_errors[w] + 1
                /\ pc'[w] = "sleep"
                /\ time'[w] >= 0
                /\ 1000 * time'[w] < rangeMilli(busy_errors'[w])
        /\ (Claims(w) \/ GetNextJobError(w))
             => /\ busy_errors'[w] = 0
                /\ pc'[w] # "sleep"
        /\ ~( \/ \E r \in Randoms : GetNextJobBusy(w, r)
              \/ Claims(w)
              \/ GetNextJobError(w) )
             => /\ busy_errors'[w] = busy_errors[w]
                /\ pc'[w] = "sleep" => pc[w] = "sleep" /\ time'[w] = time[w] ]_vars

\* C17 witness: one loop sleeps after its second busy error in a row, for
\* longer than BACKOFF_K milliseconds, while another loop that saw a busy
\* error before has its counter at 0 and runs a work function.
C17_Witness ==
  \E v, w \in Workers :
    /\ pc[w] = "sleep" /\ busy_errors[w] = 2 /\ time[w] > BACKOFF_K
    /\ pc[v] = "work" /\ busy_errors[v] = 0

(* ------------------------------- C18 ---------------------------------- *)
\* C18: the pair (id, attempts_remaining) a getNextJob returns was never
\* returned by a getNextJob before.
C18_TokenHandedOutOnce ==
  [][ \A w \in Workers : \A i \in DOMAIN jobs :
        GetNextJobRow(w, i)
          => <<job'[w].id, job'[w].attempts_remaining>> \notin granted ]_vars

\* C18 witness: a job was handed out twice, the second time after a failJob
\* had set it back to PENDING, and twice with different tokens.
C18_Witness ==
  \E j \in DOMAIN jobs :
    /\ lastCall.op = "claim" /\ lastCall.id = j /\ lastCall.ok
    /\ now = 0
    /\ {<<j, 1>>, <<j, 0>>} \subseteq granted

(* ------------------------------- C19 ---------------------------------- *)
\* C19: when no lease lapses while it is held, no two worker loops run the
\* work function for the same job at the same time, and every completeJob and
\* failJob that settles resolves true.
C19_NoLapseNoOverlap ==
  /\ [](\A v, w \in Workers :
          (v # w /\ HoldsJob(v) /\ HoldsJob(w)) => job[v].id # job[w].id)
  /\ [][ \A w \in Workers : Finalizes(w) => lastCall'.ok ]_vars

\* C19 witness: a job is run a second time, the clock having advanced, while
\* the other loop runs another job.
C19_Witness ==
  \E v, w \in Workers :
    /\ v # w
    /\ pc[v] = "work" /\ pc[w] = "work"
    /\ now > 0
    /\ jobs[job[v].id].attempts_remaining = jobs[job[v].id].max_attempts - 2

=============================================================================
